---- MODULE Spec2Model ----
(***************************************************************************)
(* A model of org_eclipse_jetty_setuid_SetUID.c, the JNI bridge of         *)
(* org.mortbay.setuid.SetUID: setuid, setgid, umask, getpwnam, getpwuid,   *)
(* getgrnam, getgrgid, getrlimit and setrlimit for RLIMIT_NOFILE.          *)
(*                                                                         *)
(* One action per native entry point.  The state is the process state the  *)
(* entry points read and write (identity, mask, open-file limit), the Java *)
(* heap of record objects they construct, the deployed record classes, and *)
(* an account of the last call (return value, exceptions thrown, string    *)
(* buffers acquired and released, bytes written to the error buffer).      *)
(*                                                                         *)
(* C integers keep their width.  An unsigned 32- or 64-bit value is a      *)
(* big-endian sequence of 16-bit limbs (uid_t, gid_t: 2 limbs; rlim_t on   *)
(* an LP64 build: 4 limbs); int and jint are integers in -2^31 .. 2^31-1.  *)
(* C strings and Java strings are strings of one-byte (ASCII) characters,  *)
(* for which GetStringUTFChars and NewStringUTF copy byte for character.   *)
(*                                                                         *)
(* Undefined behaviour (a JNI call with a NULL field or method id, a       *)
(* sprintf past the end of strErr) is a choice between the process dying   *)
(* at that point and the call going on with the access having no effect    *)
(* (a read through a NULL field id then yields an arbitrary int).          *)
(***************************************************************************)
EXTENDS Integers, Sequences, FiniteSets, TLC

VARIABLES missing, heap, euid, egid, mask, rlim, last, crashed

vars == <<missing, heap, euid, egid, mask, rlim, last, crashed>>

----------------------------------------------------------------------------
(* Bounds of the model *)

\* The Java heap holds at most this many record objects.
MaxObjs == 2

\* The longest name handed to getpwnam / getgrnam, in bytes.
MaxNameLen == 234

----------------------------------------------------------------------------
(* Program constants *)

\* char strErr[255]
StrErrSize == 255

\* One limb of an unsigned C integer holds 16 bits.
Limb == 65536

\* umask keeps the file permission bits of its argument (mode & 0777).
PermBits == 512

----------------------------------------------------------------------------
(* C integer conversions *)

\* (uid_t) uid, and the implicit jint -> gid_t of getgrgid(gid)
IntToU32(i) == << (i \div Limb) % Limb, i % Limb >>

\* uid_t / gid_t passed as the int parameter of setJavaFieldInt
U32ToInt(u) ==
  IF u[1] >= Limb \div 2 THEN (u[1] - Limb) * Limb + u[2]
                         ELSE u[1] * Limb + u[2]

\* rlim_t passed as the int parameter of setJavaFieldInt: the low 32 bits
U64ToInt(r) == U32ToInt(<< r[3], r[4] >>)

\* int assigned to rlim_t: sign extension to 64 bits
IntToU64(i) ==
  LET s == IF i < 0 THEN Limb - 1 ELSE 0
  IN  << s, s, (i \div Limb) % Limb, i % Limb >>

RECURSIVE LimbsLeq(_, _)
\* a <= b for two unsigned values of the same number of limbs
LimbsLeq(a, b) ==
  IF a = << >> THEN TRUE
  ELSE IF Head(a) # Head(b) THEN Head(a) < Head(b)
  ELSE LimbsLeq(Tail(a), Tail(b))

----------------------------------------------------------------------------
(* sprintf *)

Digit == << "0", "1", "2", "3", "4", "5", "6", "7", "8", "9" >>

RECURSIVE NatToStr(_)
NatToStr(n) ==
  IF n < 10 THEN Digit[n + 1] ELSE NatToStr(n \div 10) \o Digit[(n % 10) + 1]

RECURSIVE NegToStr(_)
\* the decimal digits of -i, for i <= 0, without negating i
NegToStr(i) ==
  LET d == (10 - (i % 10)) % 10
      q == (i + d) \div 10
  IN  IF q = 0 THEN Digit[d + 1] ELSE NegToStr(q) \o Digit[d + 1]

\* %d
FormatD(i) == IF i < 0 THEN "-" \o NegToStr(i) ELSE NatToStr(i)

\* s contains k as a substring
Contains(s, k) ==
  \E i \in 1 .. (Len(s) - Len(k) + 1) : SubSeq(s, i, i + Len(k) - 1) = k

RECURSIVE Pad(_)
\* a name of n bytes
Pad(n) ==
  IF n = 0 THEN ""
  ELSE LET h == Pad(n \div 2)
       IN  IF n % 2 = 0 THEN h \o h ELSE h \o h \o "x"

----------------------------------------------------------------------------
(* C pointers and Java values *)

NullPtr == [p |-> "NULL"]
CStr(s) == [p |-> "char*", s |-> s]

JNull == [t |-> "null"]
JString(s) == [t |-> "String", s |-> s]
JInt(i) == [t |-> "int", i |-> i]
JStringArray(a) == [t |-> "String[]", a |-> a]

----------------------------------------------------------------------------
(* The operating system's identity database, as libc reads it.  uid 0 is   *)
(* listed twice (root and toor), and nfsnobody has an id above 2^31 - 1.   *)

PasswdDb ==
  << [pw_name |-> CStr("root"), pw_passwd |-> CStr("x"), pw_uid |-> <<0, 0>>,
      pw_gid |-> <<0, 0>>, pw_gecos |-> CStr("root"), pw_dir |-> CStr("/root"),
      pw_shell |-> CStr("/bin/bash")],
     [pw_name |-> CStr("toor"), pw_passwd |-> CStr("x"), pw_uid |-> <<0, 0>>,
      pw_gid |-> <<0, 0>>, pw_gecos |-> CStr("Bourne-again root"),
      pw_dir |-> CStr("/root"), pw_shell |-> CStr("/bin/sh")],
     [pw_name |-> CStr("nfsnobody"), pw_passwd |-> CStr("x"),
      pw_uid |-> <<65535, 65534>>, pw_gid |-> <<65535, 65534>>,
      pw_gecos |-> CStr("Anonymous NFS User"), pw_dir |-> CStr("/var/lib/nfs"),
      pw_shell |-> CStr("/sbin/nologin")] >>

\* gr_mem is a NULL-terminated array of member names, or NULL.
GroupDb ==
  << [gr_name |-> CStr("root"), gr_passwd |-> CStr("x"), gr_gid |-> <<0, 0>>,
      gr_mem |-> [p |-> "char**", a |-> << NullPtr >>]],
     [gr_name |-> CStr("wheel"), gr_passwd |-> CStr("x"), gr_gid |-> <<0, 10>>,
      gr_mem |-> [p |-> "char**", a |-> << CStr("toor"), CStr("root"), NullPtr >>]],
     [gr_name |-> CStr("nfsnobody"), gr_passwd |-> CStr("x"),
      gr_gid |-> <<65535, 65534>>, gr_mem |-> NullPtr] >>

\* libc scans the database in order and answers with the first match:
\* the least of a set of entry indices, 0 (NULL) if there is none.
FirstEntry(S) == IF S = {} THEN 0 ELSE CHOOSE i \in S : \A j \in S : i <= j

libc_getpwnam(pname) ==
  FirstEntry({ i \in 1 .. Len(PasswdDb) : PasswdDb[i].pw_name = CStr(pname) })

libc_getpwuid(uid) ==
  FirstEntry({ i \in 1 .. Len(PasswdDb) : PasswdDb[i].pw_uid = uid })

libc_getgrnam(pname) ==
  FirstEntry({ i \in 1 .. Len(GroupDb) : GroupDb[i].gr_name = CStr(pname) })

libc_getgrgid(gid) ==
  FirstEntry({ i \in 1 .. Len(GroupDb) : GroupDb[i].gr_gid = gid })

----------------------------------------------------------------------------
(* The record classes the bridge binds to by name.  `missing` holds the    *)
(* elements the deployed classes lack: <<class, "">> for the class itself, *)
(* <<class, "<init>">> for its no-argument constructor, <<class, field>>   *)
(* for a field.                                                            *)

PasswdClass == "org/mortbay/setuid/Passwd"
GroupClass == "org/mortbay/setuid/Group"
RLimitClass == "org/mortbay/setuid/RLimit"

StringSig == "Ljava/lang/String;"
StringArraySig == "[Ljava/lang/String;"

PasswdFields ==
  [n \in {"_pwName", "_pwPasswd", "_pwGecos", "_pwDir", "_pwShell", "_pwUid", "_pwGid"}
     |-> IF n \in {"_pwUid", "_pwGid"} THEN "I" ELSE StringSig]

GroupFields ==
  [n \in {"_grName", "_grPasswd", "_grGid", "_grMem"}
     |-> IF n = "_grGid" THEN "I" ELSE IF n = "_grMem" THEN StringArraySig ELSE StringSig]

RLimitFields == [n \in {"_soft", "_hard"} |-> "I"]

RecordClasses == {PasswdClass, GroupClass, RLimitClass}

DeclaredFields(clazz) ==
  IF clazz = PasswdClass THEN PasswdFields
  ELSE IF clazz = GroupClass THEN GroupFields
  ELSE RLimitFields

\* Everything a deployment can lack.
Elements ==
  UNION { {<<c, "">>, <<c, "<init>">>} \cup { <<c, n>> : n \in DOMAIN DeclaredFields(c) }
          : c \in RecordClasses }

\* The fields of the deployed class.
PresentFields(clazz) ==
  { n \in DOMAIN DeclaredFields(clazz) : <<clazz, n>> \notin missing }

\* The value the Java constructor leaves in a field.
DefaultValue(sig) == IF sig = "I" THEN JInt(0) ELSE JNull

----------------------------------------------------------------------------
(* JNI functions *)

FindClass(name) == <<name, "">> \notin missing

GetMethodID(clazz, name, sig) == <<clazz, name>> \notin missing

GetFieldID(clazz, name, sig) ==
  /\ name \in PresentFields(clazz)
  /\ DeclaredFields(clazz)[name] = sig

GetObjectClass(ctx, obj) == ctx.heap[obj].cls

NewStringUTF(bytes) == IF bytes = NullPtr THEN JNull ELSE JString(bytes.s)

SetField(ctx, obj, name, value) ==
  [ctx EXCEPT !.heap[obj].fields[name] = value, !.bound = @ \cup {name}]

\* The state of one native call: the heap, the exceptions thrown so far, the
\* most bytes written into a strErr buffer, whether a NULL id was used, the
\* fields bound, and the string buffers acquired and released.
NewCall ==
  [heap |-> heap, thrown |-> << >>, written |-> 0, nullUse |-> FALSE,
   bound |-> {}, acquired |-> 0, released |-> 0]

\* A variant that keeps one record per class and hands it out again, its
\* fields reset.
NewObjectCached(ctx, clazz, methodId) ==
  IF ~methodId
  THEN [ctx |-> [ctx EXCEPT !.nullUse = TRUE], obj |-> 0]
  ELSE IF \E o \in 1 .. Len(ctx.heap) : ctx.heap[o].cls = clazz
  THEN LET o == CHOOSE o \in 1 .. Len(ctx.heap) : ctx.heap[o].cls = clazz
       IN  [ctx |-> [ctx EXCEPT !.heap[o].fields =
                       [n \in PresentFields(clazz) |-> DefaultValue(DeclaredFields(clazz)[n])]],
            obj |-> o]
  ELSE [ctx |-> [ctx EXCEPT !.heap = Append(@,
                   [cls |-> clazz,
                    fields |-> [n \in PresentFields(clazz) |->
                                  DefaultValue(DeclaredFields(clazz)[n])]])],
        obj |-> Len(ctx.heap) + 1]

\* NewObject with the no-argument constructor: a new object, every field at
\* its default.  With a NULL method id the call is undefined.
NewObject(ctx, clazz, methodId) ==
  IF ~methodId
  THEN [ctx |-> [ctx EXCEPT !.nullUse = TRUE], obj |-> 0]
  ELSE [ctx |-> [ctx EXCEPT !.heap = Append(@,
                   [cls |-> clazz,
                    fields |-> [n \in PresentFields(clazz) |->
                                  DefaultValue(DeclaredFields(clazz)[n])]])],
        obj |-> Len(ctx.heap) + 1]

----------------------------------------------------------------------------
(* Helper functions *)

throwNewJavaException(ctx, name, msg) ==
  IF FindClass(name)
  THEN [ctx EXCEPT !.thrown = Append(@, [cls |-> name, msg |-> msg])]
  ELSE ctx

throwNewJavaSecurityException(ctx, msg) ==
  throwNewJavaException(ctx, "java/lang/SecurityException", msg)

\* A variant that stops at the end of the buffer, as snprintf would.
snprintf(ctx, text) ==
  [ctx EXCEPT !.written =
     LET n == IF Len(text) + 1 > StrErrSize THEN StrErrSize ELSE Len(text) + 1
     IN  IF n > @ THEN n ELSE @]

\* sprintf(strErr, ...) with the formatted text: the text and its
\* terminator are written into char strErr[255], however long they are.
sprintf(ctx, text) ==
  [ctx EXCEPT !.written = IF Len(text) + 1 > @ THEN Len(text) + 1 ELSE @]

getJavaMethodId(ctx, clazz, name, sig) ==
  IF GetMethodID(clazz, name, sig)
  THEN [ctx |-> ctx, methodId |-> TRUE]
  ELSE LET strErr == "Java Method is not found: " \o name \o " !!!"
       IN  [ctx |-> throwNewJavaSecurityException(sprintf(ctx, strErr), strErr),
            methodId |-> FALSE]

\* A variant with the test of the field id inverted: if(fieldId).
getJavaFieldIntInverted(ctx, obj, name, junk) ==
  LET clazz == GetObjectClass(ctx, obj)
      strErr == "Java Object Field is not found: int " \o name \o " !!!"
  IN  IF GetFieldID(clazz, name, "I")
      THEN [ctx |-> throwNewJavaSecurityException(sprintf(ctx, strErr), strErr),
            val |-> ctx.heap[obj].fields[name].i]
      ELSE [ctx |-> [ctx EXCEPT !.nullUse = TRUE], val |-> junk]

\* The int read is val when the field resolves; through a NULL field id it
\* is the arbitrary int junk.
getJavaFieldInt(ctx, obj, name, junk) ==
  LET clazz == GetObjectClass(ctx, obj)
      strErr == "Java Object Field is not found: int " \o name \o " !!!"
  IN  IF GetFieldID(clazz, name, "I")
      THEN [ctx |-> ctx, val |-> ctx.heap[obj].fields[name].i]
      ELSE [ctx |-> [throwNewJavaSecurityException(sprintf(ctx, strErr), strErr)
                       EXCEPT !.nullUse = TRUE],
            val |-> junk]

setJavaFieldInt(ctx, obj, name, value) ==
  LET clazz == GetObjectClass(ctx, obj)
      strErr == "Java Object Field is not found: int " \o name \o " !!!"
  IN  IF GetFieldID(clazz, name, "I")
      THEN SetField(ctx, obj, name, JInt(value))
      ELSE [throwNewJavaSecurityException(sprintf(ctx, strErr), strErr)
              EXCEPT !.nullUse = TRUE]

setJavaFieldString(ctx, obj, name, value) ==
  LET clazz == GetObjectClass(ctx, obj)
      strErr == "Java Object Field is not found: String " \o name \o " !!!"
  IN  IF GetFieldID(clazz, name, StringSig)
      THEN SetField(ctx, obj, name, NewStringUTF(value))
      ELSE [throwNewJavaSecurityException(sprintf(ctx, strErr), strErr)
              EXCEPT !.nullUse = TRUE]

----------------------------------------------------------------------------
(* The kernel's side of the privilege and limit calls *)

\* setuid(2): a privileged process takes any id; an unprivileged one only
\* the id it already has.
sys_setuid(uid) ==
  IF euid = <<0, 0>> \/ uid = euid
  THEN [ret |-> 0, euid |-> uid]
  ELSE [ret |-> -1, euid |-> euid]

\* setgid(2)
sys_setgid(gid) ==
  IF euid = <<0, 0>> \/ gid = egid
  THEN [ret |-> 0, egid |-> gid]
  ELSE [ret |-> -1, egid |-> egid]

\* umask(2): sets the mask to mode & 0777 and returns the previous mask.
sys_umask(mode) == [ret |-> mask, mask |-> mode % PermBits]

\* setrlimit(2) for RLIMIT_NOFILE: the soft limit may not exceed the hard
\* limit, and only a privileged process may raise the hard limit.  Both
\* limits are set, or neither.
sys_setrlimit(new) ==
  IF /\ LimbsLeq(new.rlim_cur, new.rlim_max)
     /\ (LimbsLeq(new.rlim_max, rlim.rlim_max) \/ euid = <<0, 0>>)
  THEN [ret |-> 0, rlim |-> new]
  ELSE [ret |-> -1, rlim |-> rlim]

----------------------------------------------------------------------------
(* Returning from a native call *)

\* A call ran into undefined behaviour: it wrote past the end of strErr, or
\* used a NULL field or method id.
Undefined(ctx) == ctx.written > StrErrSize \/ ctx.nullUse

\* The account of a call that returned ret: what it was given, what it
\* threw, wrote, bound, acquired, released and constructed.  roundTrip marks
\* a setrlimitnofiles handed the record that the getrlimitnofiles just
\* before it returned, and the getrlimitnofiles that follows such a call.
Account(op, argS, argI, ctx, ret, roundTrip) ==
  [op |-> op, argS |-> argS, argI |-> argI, ret |-> ret,
   thrown |-> ctx.thrown, written |-> ctx.written, nullUse |-> ctx.nullUse,
   bound |-> ctx.bound, acquired |-> ctx.acquired, released |-> ctx.released,
   constructed |-> Len(ctx.heap) - Len(heap), roundTrip |-> roundTrip]

\* The call ends by returning ret with the heap as the call left it; a call
\* that ran into undefined behaviour may instead end with the process dead.
Return(op, argS, argI, ctx, ret, roundTrip) ==
  \/ /\ crashed' = FALSE
     /\ heap' = ctx.heap
     /\ last' = Account(op, argS, argI, ctx, ret, roundTrip)
  \/ /\ Undefined(ctx)
     /\ crashed' = TRUE
     /\ heap' = heap
     /\ last' = Account(op, argS, argI, ctx, 0, roundTrip)

----------------------------------------------------------------------------
(* User information *)

\* A variant that copies pw_dir into _pwShell.
CopyPasswdSlip(ctx, retVal, pw) ==
  LET c1 == setJavaFieldString(ctx, retVal, "_pwName", pw.pw_name)
      c2 == setJavaFieldString(c1, retVal, "_pwPasswd", pw.pw_passwd)
      c3 == setJavaFieldInt(c2, retVal, "_pwUid", U32ToInt(pw.pw_uid))
      c4 == setJavaFieldInt(c3, retVal, "_pwGid", U32ToInt(pw.pw_gid))
      c5 == setJavaFieldString(c4, retVal, "_pwGecos", pw.pw_gecos)
      c6 == setJavaFieldString(c5, retVal, "_pwDir", pw.pw_dir)
  IN  setJavaFieldString(c6, retVal, "_pwShell", pw.pw_dir)

\* copy the struct passwd values to java object org.mortbay.setuid.Passwd
CopyPasswd(ctx, retVal, pw) ==
  LET c1 == setJavaFieldString(ctx, retVal, "_pwName", pw.pw_name)
      c2 == setJavaFieldString(c1, retVal, "_pwPasswd", pw.pw_passwd)
      c3 == setJavaFieldInt(c2, retVal, "_pwUid", U32ToInt(pw.pw_uid))
      c4 == setJavaFieldInt(c3, retVal, "_pwGid", U32ToInt(pw.pw_gid))
      c5 == setJavaFieldString(c4, retVal, "_pwGecos", pw.pw_gecos)
      c6 == setJavaFieldString(c5, retVal, "_pwDir", pw.pw_dir)
  IN  setJavaFieldString(c6, retVal, "_pwShell", pw.pw_shell)

\* The part getpwnam and getpwuid share: find the class, construct the
\* record, copy the fields of struct passwd pw into it.
BuildPasswd(ctx, pw) ==
  IF ~FindClass(PasswdClass)
  THEN [ctx |-> throwNewJavaSecurityException(ctx,
                  "Class: org.mortbay.setuid.Passwd is not found!!!"),
        retVal |-> 0]
  ELSE
    LET m == getJavaMethodId(ctx, PasswdClass, "<init>", "()V")
        n == NewObject(m.ctx, PasswdClass, m.methodId)
    IN  IF n.obj = 0
        THEN [ctx |-> throwNewJavaSecurityException(n.ctx,
                        "Object Construction error of Class: org.mortbay.setuid.Passwd!!!"),
              retVal |-> 0]
        ELSE [ctx |-> CopyPasswd(n.ctx, n.obj, pw), retVal |-> n.obj]

getpwnam(name) ==
  /\ ~crashed
  /\ Len(heap) < MaxObjs
  /\ LET c0 == [NewCall EXCEPT !.acquired = @ + 1]
         pname == name
         pw == libc_getpwnam(pname)
     IN  IF pw = 0
         THEN LET strErr == "User " \o pname \o " is not found!!!"
                  c1 == throwNewJavaSecurityException(sprintf(c0, strErr), strErr)
              IN  Return("getpwnam", name, 0, c1, 0, FALSE)
         ELSE LET c1 == [c0 EXCEPT !.released = @ + 1]
                  r == BuildPasswd(c1, PasswdDb[pw])
              IN  Return("getpwnam", name, 0, r.ctx, r.retVal, FALSE)
  /\ UNCHANGED <<missing, euid, egid, mask, rlim>>

getpwuid(uid) ==
  /\ ~crashed
  /\ Len(heap) < MaxObjs
  /\ LET pw == libc_getpwuid(IntToU32(uid))
     IN  IF pw = 0
         THEN LET strErr == "User with uid " \o FormatD(uid) \o " is not found!!!"
                  c1 == throwNewJavaSecurityException(sprintf(NewCall, strErr), strErr)
              IN  Return("getpwuid", "", uid, c1, 0, FALSE)
         ELSE LET r == BuildPasswd(NewCall, PasswdDb[pw])
              IN  Return("getpwuid", "", uid, r.ctx, r.retVal, FALSE)
  /\ UNCHANGED <<missing, euid, egid, mask, rlim>>

----------------------------------------------------------------------------
(* Group information *)

RECURSIVE ArraySize(_, _)
\* for(array_size = 0; gr->gr_mem[array_size] != NULL; array_size++);
ArraySize(gr_mem, array_size) ==
  IF gr_mem[array_size + 1] # NullPtr
  THEN ArraySize(gr_mem, array_size + 1)
  ELSE array_size

RECURSIVE CopyAllButLast(_, _, _, _)
\* A variant whose loop stops one element early: i < array_size - 1.
CopyAllButLast(strArr, gr_mem, i, array_size) ==
  IF i < array_size - 1
  THEN CopyAllButLast([strArr EXCEPT ![i + 1] = NewStringUTF(gr_mem[i + 1])],
                      gr_mem, i + 1, array_size)
  ELSE strArr

RECURSIVE CopyMembers(_, _, _, _)
\* for(i = 0; i < array_size; i++) SetObjectArrayElement(strArr, i, ...)
CopyMembers(strArr, gr_mem, i, array_size) ==
  IF i < array_size
  THEN CopyMembers([strArr EXCEPT ![i + 1] = NewStringUTF(gr_mem[i + 1])],
                   gr_mem, i + 1, array_size)
  ELSE strArr

\* The member list of struct group gr, copied into a new String[] and bound
\* to _grMem when the list is there and not empty.
BindMembers(ctx, retVal, gr, fieldErr) ==
  IF gr.gr_mem # NullPtr
  THEN LET array_size == ArraySize(gr.gr_mem.a, 0)
       IN  IF array_size # 0
           THEN LET strArr0 == [i \in 1 .. array_size |-> NewStringUTF(CStr(""))]
                    strArr == CopyMembers(strArr0, gr.gr_mem.a, 0, array_size)
                IN  IF GetFieldID(GroupClass, "_grMem", StringArraySig)
                    THEN SetField(ctx, retVal, "_grMem", JStringArray(strArr))
                    ELSE [throwNewJavaSecurityException(ctx, fieldErr)
                            EXCEPT !.nullUse = TRUE]
           ELSE ctx
  ELSE ctx

\* The part getgrnam and getgrgid share; they differ in the text of two
\* error messages.
BuildGroup(ctx, gr, ctorErr, fieldErr) ==
  IF ~FindClass(GroupClass)
  THEN [ctx |-> throwNewJavaSecurityException(ctx,
                  "Class: org.mortbay.setuid.Group is not found!!!"),
        retVal |-> 0]
  ELSE
    LET m == getJavaMethodId(ctx, GroupClass, "<init>", "()V")
        n == NewObject(m.ctx, GroupClass, m.methodId)
    IN  IF n.obj = 0
        THEN [ctx |-> throwNewJavaSecurityException(n.ctx, ctorErr), retVal |-> 0]
        ELSE
          LET c1 == setJavaFieldString(n.ctx, n.obj, "_grName", gr.gr_name)
              c2 == setJavaFieldString(c1, n.obj, "_grPasswd", gr.gr_passwd)
              c3 == setJavaFieldInt(c2, n.obj, "_grGid", U32ToInt(gr.gr_gid))
              c4 == BindMembers(c3, n.obj, gr, fieldErr)
          IN  [ctx |-> c4, retVal |-> n.obj]

getgrnam(name) ==
  /\ ~crashed
  /\ Len(heap) < MaxObjs
  /\ LET c0 == [NewCall EXCEPT !.acquired = @ + 1]
         pname == name
         gr == libc_getgrnam(pname)
     IN  IF gr = 0
         THEN LET strErr == "Group " \o pname \o " is not found!!!"
                  c1 == throwNewJavaSecurityException(sprintf(c0, strErr), strErr)
              IN  Return("getgrnam", name, 0, c1, 0, FALSE)
         ELSE LET c1 == [c0 EXCEPT !.released = @ + 1]
                  r == BuildGroup(c1, GroupDb[gr],
                         "Object Construction error of Class: org.mortbay.setuid.Group!!!",
                         "Class: Java Object Field is not found: String[] _grMem!!!")
              IN  Return("getgrnam", name, 0, r.ctx, r.retVal, FALSE)
  /\ UNCHANGED <<missing, euid, egid, mask, rlim>>

getgrgid(gid) ==
  /\ ~crashed
  /\ Len(heap) < MaxObjs
  /\ LET gr == libc_getgrgid(IntToU32(gid))
     IN  IF gr = 0
         THEN LET strErr == "Group with gid " \o FormatD(gid) \o " is not found!!!"
                  c1 == throwNewJavaSecurityException(sprintf(NewCall, strErr), strErr)
              IN  Return("getgrgid", "", gid, c1, 0, FALSE)
         ELSE LET r == BuildGroup(NewCall, GroupDb[gr],
                         "Object Construction Error of Class: org.mortbay.setuid.Group!!!",
                         "Java Object Field is not found: String _grMem!!!")
              IN  Return("getgrgid", "", gid, r.ctx, r.retVal, FALSE)
  /\ UNCHANGED <<missing, euid, egid, mask, rlim>>

----------------------------------------------------------------------------
(* Open-file limit *)

\* getrlimit(RLIMIT_NOFILE, &rlim): the kernel's limits, or -1 when the
\* kernel refuses the call (ok = FALSE).
sys_getrlimit(ok) ==
  IF ok THEN [ret |-> 0, rlim |-> rlim] ELSE [ret |-> -1, rlim |-> rlim]

getrlimitnofiles(ok) ==
  /\ ~crashed
  /\ Len(heap) < MaxObjs
  /\ LET g == sys_getrlimit(ok)
     IN  IF g.ret < 0
         THEN Return("getrlimitnofiles", "", 0,
                     throwNewJavaSecurityException(NewCall, "getrlimit failed"),
                     0, FALSE)
         ELSE IF ~FindClass(RLimitClass)
         THEN Return("getrlimitnofiles", "", 0,
                     throwNewJavaSecurityException(NewCall,
                       "Class: org.mortbay.setuid.RLimit is not found!!!"),
                     0, FALSE)
         ELSE
           LET m == getJavaMethodId(NewCall, RLimitClass, "<init>", "()V")
               n == NewObject(m.ctx, RLimitClass, m.methodId)
           IN  IF n.obj = 0
               THEN Return("getrlimitnofiles", "", 0,
                           throwNewJavaSecurityException(n.ctx,
                             "Object Construction Error of Class: org.mortbay.setuid.RLimit!!!"),
                           0, FALSE)
               ELSE
                 LET c1 == setJavaFieldInt(n.ctx, n.obj, "_soft", U64ToInt(g.rlim.rlim_cur))
                     c2 == setJavaFieldInt(c1, n.obj, "_hard", U64ToInt(g.rlim.rlim_max))
                 IN  Return("getrlimitnofiles", "", 0, c2, n.obj,
                            last.op = "setrlimitnofiles" /\ last.roundTrip)
  /\ UNCHANGED <<missing, euid, egid, mask, rlim>>

\* A variant that reads _soft for both limits.
ReadLimitsSoftTwice(ctx, jo, junk) ==
  LET s == getJavaFieldInt(ctx, jo, "_soft", junk)
      h == getJavaFieldInt(s.ctx, jo, "_soft", junk)
  IN  [ctx |-> h.ctx,
       rlim |-> [rlim_cur |-> IntToU64(s.val), rlim_max |-> IntToU64(h.val)]]

\* The struct rlimit that setrlimitnofiles fills from record jo.
ReadLimits(ctx, jo, junk) ==
  LET s == getJavaFieldInt(ctx, jo, "_soft", junk)
      h == getJavaFieldInt(s.ctx, jo, "_hard", junk)
  IN  [ctx |-> h.ctx,
       rlim |-> [rlim_cur |-> IntToU64(s.val), rlim_max |-> IntToU64(h.val)]]

\* jo is a record of class RLimit that the caller holds.
setrlimitnofiles(jo, junk) ==
  /\ ~crashed
  /\ jo \in 1 .. Len(heap)
  /\ heap[jo].cls = RLimitClass
  /\ LET r == ReadLimits(NewCall, jo, junk)
         k == sys_setrlimit(r.rlim)
         roundTrip == last.op = "getrlimitnofiles" /\ last.ret = jo
     IN  /\ Return("setrlimitnofiles", "", jo, r.ctx, k.ret, roundTrip)
         /\ rlim' = IF crashed' THEN rlim ELSE k.rlim
  /\ UNCHANGED <<missing, euid, egid, mask>>

\* The Java caller makes a record of its own to hand to setrlimitnofiles:
\* new RLimit() with its fields set to soft and hard.
CallerNewRLimit(soft, hard) ==
  /\ ~crashed
  /\ Len(heap) < MaxObjs
  /\ FindClass(RLimitClass) /\ GetMethodID(RLimitClass, "<init>", "()V")
  /\ heap' = Append(heap,
       [cls |-> RLimitClass,
        fields |-> [n \in PresentFields(RLimitClass) |->
                      IF n = "_soft" THEN JInt(soft) ELSE JInt(hard)]])
  /\ UNCHANGED <<missing, euid, egid, mask, rlim, last, crashed>>

----------------------------------------------------------------------------
(* Privilege changes *)

setuid(uid) ==
  /\ ~crashed
  /\ LET k == sys_setuid(IntToU32(uid))
     IN  /\ euid' = k.euid
         /\ Return("setuid", "", uid, NewCall, k.ret, FALSE)
  /\ UNCHANGED <<missing, egid, mask, rlim>>

setumask(m) ==
  /\ ~crashed
  /\ LET k == sys_umask(m)
     IN  /\ mask' = k.mask
         /\ Return("setumask", "", m, NewCall, k.ret, FALSE)
  /\ UNCHANGED <<missing, euid, egid, rlim>>

setgid(gid) ==
  /\ ~crashed
  /\ LET k == sys_setgid(IntToU32(gid))
     IN  /\ egid' = k.egid
         /\ Return("setgid", "", gid, NewCall, k.ret, FALSE)
  /\ UNCHANGED <<missing, euid, mask, rlim>>

----------------------------------------------------------------------------
(* The inputs of the calls *)

\* Names looked up: the database's, one it does not hold, and names of
\* StrErrSize - 23 to MaxNameLen bytes it does not hold.
Names ==
  {"root", "toor", "nfsnobody", "wheel", "ghost"}
    \cup { Pad(n) : n \in (StrErrSize - 23) .. MaxNameLen }

\* Numeric ids looked up; -2 is the jint of id 4294967294.
Ids == {0, 10, -2, 1000}

\* Ids a process changes to.
TargetIds == {0, 1000}

\* 0 and 01022
Masks == {0, 530}

\* What a read through a NULL field id may yield.
JunkInts == {-1, 7}

\* Limits a caller asks for, as <<soft, hard>>.
CallerLimits == { <<10, 5>>, <<5, 10>> }

\* The kernel's open-file limits at start, as <<soft, hard>>: 1024 / 4096.
DefaultLimits == << <<0, 0, 0, 1024>>, <<0, 0, 0, 4096>> >>

\* Limits a process may also start with: 2^31 - 1 / 2^31, 2^31 / 2^32 + 5,
\* 2^32 + 5 / unlimited, and unlimited / unlimited.
StartLimits ==
  { DefaultLimits,
    << <<0, 0, 32767, 65535>>, <<0, 0, 32768, 0>> >>,
    << <<0, 0, 32768, 0>>, <<0, 1, 0, 5>> >>,
    << <<0, 1, 0, 5>>, <<65535, 65535, 65535, 65535>> >>,
    << <<65535, 65535, 65535, 65535>>, <<65535, 65535, 65535, 65535>> >> }

\* The deployments: every record class complete, or one element lacking.
Deployments == {{}} \cup { {e} : e \in Elements }

----------------------------------------------------------------------------
(* The specifications *)

\* A process starts as root with mask 022, no record made and no call made.
InitOver(deployments, limits) ==
  /\ missing \in deployments
  /\ heap = << >>
  /\ euid = <<0, 0>>
  /\ egid = <<0, 0>>
  /\ mask = 18
  /\ \E l \in limits : rlim = [rlim_cur |-> l[1], rlim_max |-> l[2]]
  /\ crashed = FALSE
  /\ last = [op |-> "none", argS |-> "", argI |-> 0, ret |-> 0,
             thrown |-> << >>, written |-> 0, nullUse |-> FALSE,
             bound |-> {}, acquired |-> 0, released |-> 0, constructed |-> 0,
             roundTrip |-> FALSE]

\* Every entry point, with the record classes deployed complete.
Init == InitOver({{}}, {DefaultLimits})

Next ==
  \/ \E uid \in TargetIds : setuid(uid)
  \/ \E m \in Masks : setumask(m)
  \/ \E gid \in TargetIds : setgid(gid)
  \/ \E name \in Names : getpwnam(name)
  \/ \E uid \in Ids : getpwuid(uid)
  \/ \E name \in Names : getgrnam(name)
  \/ \E gid \in Ids : getgrgid(gid)
  \/ \E ok \in BOOLEAN : getrlimitnofiles(ok)
  \/ \E jo \in 1 .. Len(heap), junk \in JunkInts : setrlimitnofiles(jo, junk)
  \/ \E l \in CallerLimits : CallerNewRLimit(l[1], l[2])

Spec == Init /\ [][Next]_vars

\* Every entry point, under every deployment, with one key found and one
\* key not found for each lookup.
InitDeploy == InitOver(Deployments, {DefaultLimits})

NextDeploy ==
  \/ \E uid \in {1000} : setuid(uid)
  \/ \E m \in {530} : setumask(m)
  \/ \E gid \in {1000} : setgid(gid)
  \/ \E name \in {"root", "ghost"} : getpwnam(name)
  \/ \E uid \in {0, 1000} : getpwuid(uid)
  \/ \E name \in {"wheel", "ghost"} : getgrnam(name)
  \/ \E gid \in {10, 1000} : getgrgid(gid)
  \/ \E ok \in BOOLEAN : getrlimitnofiles(ok)
  \/ \E jo \in 1 .. Len(heap), junk \in JunkInts : setrlimitnofiles(jo, junk)
  \/ \E l \in CallerLimits : CallerNewRLimit(l[1], l[2])

SpecDeploy == InitDeploy /\ [][NextDeploy]_vars

\* The open-file limit calls, from every start limit, as root and not.
InitLimits == InitOver({{}}, StartLimits)

NextLimits ==
  \/ \E uid \in TargetIds : setuid(uid)
  \/ \E ok \in BOOLEAN : getrlimitnofiles(ok)
  \/ \E jo \in 1 .. Len(heap), junk \in JunkInts : setrlimitnofiles(jo, junk)
  \/ \E l \in CallerLimits : CallerNewRLimit(l[1], l[2])

SpecLimits == InitLimits /\ [][NextLimits]_vars

----------------------------------------------------------------------------
(* What the properties speak of *)

Lookups == {"getpwnam", "getpwuid", "getgrnam", "getgrgid"}
UserLookups == {"getpwnam", "getpwuid"}
GroupLookups == {"getgrnam", "getgrgid"}
NameLookups == {"getpwnam", "getgrnam"}
RecordCalls == Lookups \cup {"getrlimitnofiles"}
PrivilegeCalls == {"setuid", "setgid", "setumask"}

\* The key the last lookup was given, as text.
QueriedKey == IF last.op \in NameLookups THEN last.argS ELSE FormatD(last.argI)

\* The database entries that the key of the last lookup names.
MatchingEntries ==
  IF last.op = "getpwnam"
  THEN { i \in 1 .. Len(PasswdDb) : PasswdDb[i].pw_name.s = last.argS }
  ELSE IF last.op = "getpwuid"
  THEN { i \in 1 .. Len(PasswdDb) : PasswdDb[i].pw_uid = IntToU32(last.argI) }
  ELSE IF last.op = "getgrnam"
  THEN { i \in 1 .. Len(GroupDb) : GroupDb[i].gr_name.s = last.argS }
  ELSE { i \in 1 .. Len(GroupDb) : GroupDb[i].gr_gid = IntToU32(last.argI) }

\* The first of them.
FoundEntry == CHOOSE i \in MatchingEntries : \A j \in MatchingEntries : i <= j

\* The exception pending when the last call returned is a SecurityException
\* whose message contains text.
PendingSecurityException(text) ==
  /\ last.thrown # << >>
  /\ last.thrown[Len(last.thrown)].cls = "java/lang/SecurityException"
  /\ Contains(last.thrown[Len(last.thrown)].msg, text)

IsName(ptr) == ptr # NullPtr

\* The member names of a group entry, in order.
Members(gr) == IF gr.gr_mem = NullPtr THEN << >> ELSE SelectSeq(gr.gr_mem.a, IsName)

\* The fields a returned record should have had bound.
ExpectedBound ==
  IF last.op \in UserLookups THEN DOMAIN PasswdFields
  ELSE IF last.op \in GroupLookups
  THEN {"_grName", "_grPasswd", "_grGid"}
         \cup (IF Members(GroupDb[FoundEntry]) # << >> THEN {"_grMem"} ELSE {})
  ELSE DOMAIN RLimitFields

\* Java int i and unsigned C value u (of 2 or 4 limbs) are the same number.
SameNumber(i, u) ==
  /\ i >= 0
  /\ u[Len(u)] = i % Limb
  /\ u[Len(u) - 1] = i \div Limb
  /\ \A k \in 1 .. (Len(u) - 2) : u[k] = 0

\* Java int i holds the 32 bits of the id u.
SameBits(i, u) == IntToU32(i) = u

\* Record object rec holds the fields of passwd entry e.
HoldsUser(rec, e) ==
  /\ rec.cls = PasswdClass
  /\ rec.fields["_pwName"] = JString(e.pw_name.s)
  /\ rec.fields["_pwPasswd"] = JString(e.pw_passwd.s)
  /\ rec.fields["_pwUid"].t = "int" /\ SameBits(rec.fields["_pwUid"].i, e.pw_uid)
  /\ rec.fields["_pwGid"].t = "int" /\ SameBits(rec.fields["_pwGid"].i, e.pw_gid)
  /\ rec.fields["_pwGecos"] = JString(e.pw_gecos.s)
  /\ rec.fields["_pwDir"] = JString(e.pw_dir.s)
  /\ rec.fields["_pwShell"] = JString(e.pw_shell.s)

----------------------------------------------------------------------------
(* The properties *)

\* C1: each of the four lookups, given a key the identity database has no
\* entry for, raises a SecurityException whose message contains the key,
\* returns NULL and constructs no record.
C1_NotFoundRaises ==
  (last.op \in Lookups /\ MatchingEntries = {}) =>
    /\ ~crashed
    /\ last.ret = 0
    /\ last.constructed = 0
    /\ PendingSecurityException(QueriedKey)

\* C2: a lookup or getrlimitnofiles that returns a record has bound every
\* field of it and has raised no exception: a reflective step that fails
\* makes the entry point return early with no result.
C2_NonNullMeansAllBound ==
  (last.op \in RecordCalls /\ ~crashed /\ last.ret # 0) =>
    /\ last.thrown = << >>
    /\ ExpectedBound \subseteq last.bound

\* C3 as claimed: setuid, setgid, setumask and setrlimitnofiles never raise
\* an exception, on any path; a lookup or getrlimitnofiles that fails
\* says so by exception.
C3_ChannelsNeverMixed ==
  /\ last.op \in PrivilegeCalls \cup {"setrlimitnofiles"} => last.thrown = << >>
  /\ (last.op \in RecordCalls /\ ~crashed /\ last.ret = 0) => last.thrown # << >>

\* C3 as amended: setuid, setgid and setumask never raise an exception;
\* setrlimitnofiles raises none when the _soft and _hard fields of its
\* record both resolve (a soft limit above the hard limit included), and
\* raises a SecurityException naming the field when one does not; a lookup
\* or getrlimitnofiles that returns no record has an exception pending.
C3_ChannelsAmended ==
  /\ last.op \in PrivilegeCalls => last.thrown = << >>
  /\ (last.op = "setrlimitnofiles"
        /\ GetFieldID(RLimitClass, "_soft", "I") /\ GetFieldID(RLimitClass, "_hard", "I"))
       => last.thrown = << >>
  /\ (last.op = "setrlimitnofiles" /\ ~GetFieldID(RLimitClass, "_soft", "I"))
       => \E k \in 1 .. Len(last.thrown) :
            /\ last.thrown[k].cls = "java/lang/SecurityException"
            /\ Contains(last.thrown[k].msg, "_soft")
  /\ (last.op = "setrlimitnofiles" /\ ~GetFieldID(RLimitClass, "_hard", "I"))
       => PendingSecurityException("_hard")
  /\ (last.op \in RecordCalls /\ ~crashed /\ last.ret = 0) => last.thrown # << >>

\* setrlimitnofiles, given a record whose soft limit is above its hard
\* limit, returned -1 and raised nothing.
C3_Witness ==
  /\ last.op = "setrlimitnofiles"
  /\ missing = {}
  /\ heap[last.argI].fields["_soft"].i > heap[last.argI].fields["_hard"].i
  /\ last.ret = -1
  /\ last.thrown = << >>

\* C4: a group lookup that returns a record for an entry of N members has
\* bound _grMem to a String[] of the N member names in order when N > 0,
\* and has left _grMem unwritten, at null, when N = 0 or the list is absent.
C4_MembersBound ==
  (last.op \in GroupLookups /\ ~crashed /\ last.ret # 0) =>
    LET m == Members(GroupDb[FoundEntry])
        f == heap[last.ret].fields["_grMem"]
    IN  IF Len(m) > 0
        THEN /\ f.t = "String[]"
             /\ Len(f.a) = Len(m)
             /\ \A i \in 1 .. Len(m) : f.a[i] = JString(m[i].s)
        ELSE /\ f = JNull
             /\ "_grMem" \notin last.bound

\* getgrnam returned the record of a group of two members.
C4_Witness ==
  /\ last.op = "getgrnam"
  /\ last.ret # 0
  /\ heap[last.ret].fields["_grMem"] = JStringArray(<< JString("toor"), JString("root") >>)

\* C5: a getrlimitnofiles that follows a setrlimitnofiles handed the record
\* of the getrlimitnofiles before it returns a record with the same _soft
\* and _hard as that first record.
C5_RoundTrip ==
  [][ ( /\ last.op = "setrlimitnofiles" /\ last.roundTrip
        /\ last'.op = "getrlimitnofiles" /\ last'.ret # 0 )
      => heap'[last'.ret].fields = heap[last.argI].fields ]_vars

\* The second read of a round trip returned a record, its hard limit the
\* int of "unlimited".
C5_Witness ==
  /\ last.op = "getrlimitnofiles"
  /\ last.roundTrip
  /\ last.ret # 0
  /\ heap[last.ret].fields["_hard"].i = -1

\* C6: the record getrlimitnofiles returns holds the kernel's soft and hard
\* limits, whatever rlim_t values they are.
C6_RecordEqualsKernel ==
  (last.op = "getrlimitnofiles" /\ ~crashed /\ last.ret # 0) =>
    /\ SameNumber(heap[last.ret].fields["_soft"].i, rlim.rlim_cur)
    /\ SameNumber(heap[last.ret].fields["_hard"].i, rlim.rlim_max)

\* C7 as claimed: for every user of the database, getpwnam of its name and
\* getpwuid of its id each return a record holding that user's entry.
C7_LookupHoldsUser ==
  \A u \in 1 .. Len(PasswdDb) :
    /\ (last.op = "getpwnam" /\ last.argS = PasswdDb[u].pw_name.s /\ last.ret # 0)
         => HoldsUser(heap[last.ret], PasswdDb[u])
    /\ (last.op = "getpwuid" /\ IntToU32(last.argI) = PasswdDb[u].pw_uid /\ last.ret # 0)
         => HoldsUser(heap[last.ret], PasswdDb[u])

\* C7 as amended: getpwnam and getpwuid return a record holding the first
\* database entry with the name or numeric id asked for, _pwUid and _pwGid
\* being the ints with the 32 bits of the entry's ids.
C7_LookupHoldsFirstEntry ==
  (last.op \in UserLookups /\ ~crashed /\ last.ret # 0) =>
    \E u \in MatchingEntries :
      /\ \A v \in MatchingEntries : u <= v
      /\ HoldsUser(heap[last.ret], PasswdDb[u])

\* getpwuid(0), an id two entries share, returned the record of root.
C7_Witness ==
  /\ last.op = "getpwuid"
  /\ last.argI = 0
  /\ last.ret # 0
  /\ heap[last.ret].fields["_pwName"] = JString("root")

\* C8: on the not-found path of getpwnam the error text runs past the end of
\* the 255-byte buffer exactly when the name is longer than 233 bytes, and
\* on that of getgrnam exactly when it is longer than 232 bytes.
C8_ErrorTextOverruns ==
  /\ (last.op = "getpwnam" /\ MatchingEntries = {})
       => (last.written > 255 <=> Len(last.argS) > 233)
  /\ (last.op = "getgrnam" /\ MatchingEntries = {})
       => (last.written > 255 <=> Len(last.argS) > 232)

\* getgrnam of an unknown name of 233 bytes wrote past the end of strErr.
C8_Witness ==
  /\ last.op = "getgrnam"
  /\ MatchingEntries = {}
  /\ Len(last.argS) = 233
  /\ last.written = 256

\* C9: no call changes a record made before it, and the record a call
\* returns is a new one, none of the records made before.
C9_RecordsNewAndKept ==
  [][ /\ Len(heap') >= Len(heap)
      /\ \A o \in 1 .. Len(heap) : heap'[o] = heap[o]
      /\ (last' # last /\ last'.op \in RecordCalls /\ last'.ret # 0)
           => (last'.ret \notin 1 .. Len(heap) /\ last'.ret \in 1 .. Len(heap')) ]_vars

\* A second lookup returned a record while the record of an earlier user
\* lookup is held.
C9_Witness ==
  /\ Len(heap) = 2
  /\ heap[1].cls = PasswdClass
  /\ last.op = "getgrgid"
  /\ last.ret = 2

\* C10: getpwnam and getgrnam release the name buffer they acquired exactly
\* once before they return, on every path.
C10_NameReleasedOnce ==
  (last.op \in NameLookups /\ ~crashed) =>
    /\ last.acquired = 1
    /\ last.released = 1

====
